---- MODULE Spec2Model ----
(***************************************************************************)
(* Model of app.py: the Flux generation client (generate_image) and the    *)
(* "Generate" button handler of the Streamlit page.                        *)
(*                                                                         *)
(* The call chain is synchronous and blocking.  Every action below is one  *)
(* stretch of code between two blocking HTTP calls: it starts when the     *)
(* outstanding call comes back (with a response or by raising) and runs    *)
(* until the next HTTP request has been issued or the script run has ended.*)
(***************************************************************************)
EXTENDS Naturals, FiniteSets, Sequences, TLC

(* ---------------------------- bounds ----------------------------------- *)
MaxClicks == 2

(* ------------------------ program constants ---------------------------- *)
FLUX_API_KEY == "secret-key"
BASE_URL == "https://api.bfl.ai/v1"
GEN_PATH == "/flux-pro-1.1-ultra"
MaxAttempts == 60

(* ----------------------- values of the model --------------------------- *)
Absent == "<absent>"
NoneStr == "<None>"
U1 == "https://x/p/1"
U2 == "https://x/p/2"
S1 == "https://x/img/1.png"
S2 == "https://x/img/2.png"

Prompts == {"", "A serene sunset", "A red fox"}
PollingUrls == {U1, U2}
SampleUrls == {S1, S2}
StatusCodes == {101, 200, 201, 304, 401, 500}

CreateUrl == <<BASE_URL, GEN_PATH>>

NoImg == [depicts |-> NoneStr]
NoErr == [msg |-> NoneStr, code |-> 0, text |-> NoneStr]
NoRet == [kind |-> "none", img |-> NoImg, err |-> NoErr]
NoUi == [type |-> "none", text |-> NoErr]
NoBody == [json |-> "invalid", polling_url |-> Absent, extra |-> FALSE, text |-> ""]
NoResp == [kind |-> "none", status_code |-> 0, body |-> NoBody]

(* Bodies a creation response can carry: a JSON object with or without a   *)
(* polling_url (possibly an empty one) and with or without other fields, a *)
(* JSON value that is not an object, or text that is not JSON.             *)
CreateBodies ==
    { [json |-> "object", polling_url |-> u, extra |-> e, text |-> "{..}"] :
          u \in {Absent, ""}, e \in BOOLEAN }
    \cup { [json |-> "object", polling_url |-> u, extra |-> TRUE, text |-> "{..}"] :
          u \in PollingUrls }
    \cup { [json |-> "array", polling_url |-> Absent, extra |-> FALSE, text |-> "[]"],
           [json |-> "invalid", polling_url |-> Absent, extra |-> FALSE, text |-> "unauthorized"] }

CreateResponses ==
    { [kind |-> "response", status_code |-> c, body |-> b] :
          c \in StatusCodes, b \in CreateBodies }
    \cup { [kind |-> "connerr", status_code |-> 0, body |-> NoBody] }

(* Poll responses: sample is the value of result.sample, NoResult when the *)
(* object has no result key, NoSample when result has no sample key.       *)
NoResult == "<no result>"
NoSample == "<no sample>"
PollStatuses == {Absent, "Pending", "Ready", "Error", "Unknown"}
PollResponses ==
    { [kind |-> "response", json |-> "object", status |-> s, sample |-> x] :
          s \in PollStatuses, x \in {NoResult, NoSample} \cup SampleUrls }
    \cup { [kind |-> "response", json |-> j, status |-> Absent, sample |-> NoResult] :
          j \in {"array", "invalid"} }
    \cup { [kind |-> "connerr", json |-> "invalid", status |-> Absent, sample |-> NoResult] }

FetchResponses ==
    { [kind |-> k, decodable |-> d] : k \in {"response"}, d \in BOOLEAN }
    \cup { [kind |-> "connerr", decodable |-> FALSE] }

VARIABLES
    pc,             \* where the script run is blocked: idle, post, poll, fetch
    prompt,         \* the text area's value in the current run
    polling_url,    \* local of generate_image
    attempt,        \* iteration of the for loop (1..60), 0 outside the loop
    sample,         \* r2["result"]["sample"] being fetched
    session_state,  \* st.session_state (keys present -> values)
    ui,             \* the message the current run has displayed
    ret,            \* how the call of generate_image of this run ended
    called,         \* generate_image was called in the current run
    nPost, nPoll, nFetch,   \* HTTP requests issued by the current run
    reqs,           \* the distinct requests issued by the current run
    createResp,     \* the creation response the current call received
    onlyNonReady,   \* every poll response so far was an object, not Ready
    willBeReady,    \* provider: one of its first 60 answers is Ready with a sample
    readyAt,        \* index of the first such answer once given, 0 before
    jobPrompt,      \* provider: the prompt of the job it was last asked for
    prevUrl,        \* the polling URL the previous call obtained
    clicks          \* number of Generate clicks so far

vars == <<pc, prompt, polling_url, attempt, sample, session_state, ui, ret,
          called, nPost, nPoll, nFetch, reqs, createResp, onlyNonReady,
          willBeReady, readyAt, jobPrompt, prevUrl, clicks>>

(* ------------------------- generate_image ------------------------------ *)
Headers == [x_key |-> FLUX_API_KEY, accept |-> "application/json"]
NoHeaders == [x_key |-> Absent, accept |-> Absent]
Payload(p) == [prompt |-> p, aspect_ratio |-> "1:1"]

Request(kind, method, url, headers) ==
    [kind |-> kind, method |-> method, url |-> url, headers |-> headers]

PostRequest(p) == Request("create", "POST", CreateUrl, Headers)
\* variant: the poll goes to the URL left over from the previous call
PollRequestStale(url) == Request("poll", "GET", <<prevUrl>>, Headers)
PollRequest(url) == Request("poll", "GET", <<url>>, Headers)
\* variant: the image fetch reuses the authenticated headers
FetchRequestWithKey(url) == Request("fetch", "GET", <<url>>, Headers)
FetchRequest(url) == Request("fetch", "GET", <<url>>, NoHeaders)

\* variant: the status code is never looked at
ResponseOkAlways(code) == TRUE

\* requests.Response.ok: raise_for_status raises for 400 <= code < 600 only
ResponseOk(code) == ~(400 <= code /\ code < 600)

\* data.get("polling_url") on a JSON object; None when the key is missing
GetPollingUrl(body) == IF body.polling_url = Absent THEN NoneStr ELSE body.polling_url

\* variant: only the empty string is rejected (`if polling_url == ""`)
TruthyNotEmpty(v) == v # ""

\* Python truthiness of the value: None and "" are falsy
Truthy(v) == v # NoneStr /\ v # ""

ErrTransport(code, text) == [msg |-> "Error", code |-> code, text |-> text]
ErrNoUrl == [msg |-> "No polling URL returned", code |-> 0, text |-> NoneStr]
ErrTimeout == [msg |-> "Timeout waiting for image", code |-> 0, text |-> NoneStr]

\* r2.get("status") == "Ready"
IsReady(r2) == r2.status = "Ready"

\* variant: range(61)
HasNextAttemptOffByOne(i) == i < MaxAttempts + 1

\* the range of the for loop: is there an iteration after iteration i
HasNextAttempt(i) == i < MaxAttempts

Returned(img, err) == [kind |-> "returned", img |-> img, err |-> err]
Raised(exc) == [kind |-> "raised", img |-> NoImg, err |-> [msg |-> exc, code |-> 0, text |-> NoneStr]]

(* ----------------------- the Generate handler -------------------------- *)
\* variant: the handler does not check the prompt
PromptEmptyNever(p) == FALSE

\* `not prompt` on the text area's string
PromptEmpty(p) == p = ""

\* variant: the prompt is stored only when none is stored yet (setdefault)
StoreGeneratedKeepPrompt(ss, img, p) ==
    [k \in DOMAIN ss \cup {"generated_image", "generated_prompt"} |->
        IF k = "generated_image" THEN img
        ELSE IF k = "generated_prompt"
             THEN (IF k \in DOMAIN ss THEN ss[k] ELSE p)
        ELSE ss[k]]

\* session_state after the two assignments of the success branch
StoreGenerated(ss, img, p) ==
    [k \in DOMAIN ss \cup {"generated_image", "generated_prompt"} |->
        IF k = "generated_image" THEN img
        ELSE IF k = "generated_prompt" THEN p
        ELSE ss[k]]

\* the rest of the handler once generate_image has returned (img, err)
HandlerAfterReturn(img, err) ==
    /\ ret' = Returned(img, err)
    /\ IF err # NoErr
       THEN /\ ui' = [type |-> "error", text |-> err]
            /\ UNCHANGED session_state
       ELSE /\ ui' = NoUi
            /\ session_state' = StoreGenerated(session_state, img, prompt)

\* an exception leaves generate_image and the handler; the script run ends
HandlerAfterRaise(exc) ==
    /\ ret' = Raised(exc)
    /\ ui' = [type |-> "exception", text |-> [msg |-> exc, code |-> 0, text |-> NoneStr]]
    /\ UNCHANGED session_state

Init ==
    /\ pc = "idle"
    /\ prompt = ""
    /\ polling_url = NoneStr
    /\ attempt = 0
    /\ sample = NoneStr
    /\ session_state = [k \in {} |-> ""]
    /\ ui = NoUi
    /\ ret = NoRet
    /\ called = FALSE
    /\ nPost = 0 /\ nPoll = 0 /\ nFetch = 0
    /\ reqs = {}
    /\ createResp = NoResp
    /\ onlyNonReady = TRUE
    /\ willBeReady = FALSE
    /\ readyAt = 0
    /\ jobPrompt = NoneStr
    /\ prevUrl = NoneStr
    /\ clicks = 0

\* st.button("Generate") pressed with p in the text area
GenerateClick(p) ==
    /\ pc = "idle"
    /\ clicks < MaxClicks
    /\ clicks' = clicks + 1
    /\ prompt' = p
    /\ polling_url' = NoneStr /\ attempt' = 0 /\ sample' = NoneStr
    /\ ret' = NoRet
    /\ createResp' = NoResp
    /\ onlyNonReady' = TRUE
    /\ willBeReady' = FALSE
    /\ readyAt' = 0
    /\ nPoll' = 0 /\ nFetch' = 0
    /\ prevUrl' = IF Truthy(polling_url) THEN polling_url ELSE prevUrl
    /\ UNCHANGED session_state
    /\ IF PromptEmpty(p)
       THEN /\ ui' = [type |-> "warning",
                      text |-> [msg |-> "Please enter a prompt.", code |-> 0, text |-> NoneStr]]
            /\ called' = FALSE
            /\ nPost' = 0 /\ reqs' = {}
            /\ pc' = "idle"
            /\ UNCHANGED jobPrompt
       ELSE /\ ui' = NoUi
            /\ called' = TRUE
            /\ nPost' = 1 /\ reqs' = {PostRequest(p)}
            /\ jobPrompt' = Payload(p).prompt
            /\ pc' = "post"

\* requests.post comes back
CreateReturns(resp) ==
    /\ pc = "post"
    /\ createResp' = resp
    /\ UNCHANGED <<prompt, sample, called, nPost, nFetch, onlyNonReady,
                   readyAt, jobPrompt, prevUrl, clicks>>
    /\ IF resp.kind = "connerr"
       THEN /\ HandlerAfterRaise("ConnectionError")
            /\ pc' = "idle"
            /\ UNCHANGED <<polling_url, attempt, nPoll, reqs, willBeReady>>
       ELSE IF ~ResponseOk(resp.status_code)
       THEN /\ HandlerAfterReturn(NoImg, ErrTransport(resp.status_code, resp.body.text))
            /\ pc' = "idle"
            /\ UNCHANGED <<polling_url, attempt, nPoll, reqs, willBeReady>>
       ELSE IF resp.body.json = "invalid"
       THEN /\ HandlerAfterRaise("JSONDecodeError")
            /\ pc' = "idle"
            /\ UNCHANGED <<polling_url, attempt, nPoll, reqs, willBeReady>>
       ELSE IF resp.body.json = "array"
       THEN /\ HandlerAfterRaise("AttributeError")
            /\ pc' = "idle"
            /\ UNCHANGED <<polling_url, attempt, nPoll, reqs, willBeReady>>
       ELSE IF ~Truthy(GetPollingUrl(resp.body))
       THEN /\ HandlerAfterReturn(NoImg, ErrNoUrl)
            /\ polling_url' = GetPollingUrl(resp.body)
            /\ pc' = "idle"
            /\ UNCHANGED <<attempt, nPoll, reqs, willBeReady>>
       ELSE /\ polling_url' = GetPollingUrl(resp.body)
            /\ attempt' = 1
            /\ nPoll' = 1
            /\ reqs' = reqs \cup {PollRequest(polling_url')}
            /\ willBeReady' \in BOOLEAN
            /\ pc' = "poll"
            /\ UNCHANGED <<ret, ui, session_state>>

ReadyWithSample(r) ==
    /\ r.kind = "response" /\ r.json = "object"
    /\ r.status = "Ready" /\ r.sample \in SampleUrls

\* the answers the provider may give to poll number i of the current job:
\* a job that will be ready gives its Ready answer at the 60th poll at the
\* latest, a job that will not never gives one
PollAnswers(i) ==
    IF willBeReady
    THEN IF i < MaxAttempts THEN PollResponses
         ELSE {r \in PollResponses : ReadyWithSample(r)}
    ELSE {r \in PollResponses : ~ReadyWithSample(r)}

\* requests.get(polling_url).json() of iteration `attempt` comes back
PollReturns(r2) ==
    /\ pc = "poll"
    /\ r2 \in PollAnswers(attempt)
    /\ onlyNonReady' = (onlyNonReady /\ r2.kind = "response" /\ r2.json = "object"
                        /\ r2.status # "Ready")
    /\ readyAt' = IF ReadyWithSample(r2) THEN attempt ELSE readyAt
    /\ UNCHANGED <<prompt, polling_url, called, nPost, createResp, willBeReady,
                   jobPrompt, prevUrl, clicks>>
    /\ IF r2.kind = "connerr"
       THEN /\ HandlerAfterRaise("ConnectionError")
            /\ pc' = "idle"
            /\ UNCHANGED <<attempt, sample, nPoll, nFetch, reqs>>
       ELSE IF r2.json = "invalid"
       THEN /\ HandlerAfterRaise("JSONDecodeError")
            /\ pc' = "idle"
            /\ UNCHANGED <<attempt, sample, nPoll, nFetch, reqs>>
       ELSE IF r2.json = "array"
       THEN /\ HandlerAfterRaise("AttributeError")
            /\ pc' = "idle"
            /\ UNCHANGED <<attempt, sample, nPoll, nFetch, reqs>>
       ELSE IF IsReady(r2)
       THEN IF r2.sample \in {NoResult, NoSample}
            THEN /\ HandlerAfterRaise("KeyError")
                 /\ pc' = "idle"
                 /\ UNCHANGED <<attempt, sample, nPoll, nFetch, reqs>>
            ELSE /\ sample' = r2.sample
                 /\ nFetch' = nFetch + 1
                 /\ reqs' = reqs \cup {FetchRequest(r2.sample)}
                 /\ pc' = "fetch"
                 /\ UNCHANGED <<attempt, nPoll, ret, ui, session_state>>
       ELSE IF HasNextAttempt(attempt)
       THEN /\ attempt' = attempt + 1
            /\ nPoll' = nPoll + 1
            /\ reqs' = reqs \cup {PollRequest(polling_url)}
            /\ pc' = "poll"
            /\ UNCHANGED <<sample, nFetch, ret, ui, session_state>>
       ELSE /\ HandlerAfterReturn(NoImg, ErrTimeout)
            /\ pc' = "idle"
            /\ UNCHANGED <<attempt, sample, nPoll, nFetch, reqs>>

\* requests.get(sample) comes back and Image.open decodes its content
FetchReturns(resp) ==
    /\ pc = "fetch"
    /\ pc' = "idle"
    /\ UNCHANGED <<prompt, polling_url, attempt, sample, called, nPost, nPoll,
                   nFetch, reqs, createResp, onlyNonReady, willBeReady, readyAt,
                   jobPrompt, prevUrl, clicks>>
    /\ IF resp.kind = "connerr"
       THEN HandlerAfterRaise("ConnectionError")
       ELSE IF ~resp.decodable
       THEN HandlerAfterRaise("UnidentifiedImageError")
       ELSE HandlerAfterReturn([depicts |-> jobPrompt], NoErr)

Next ==
    \/ \E p \in Prompts : GenerateClick(p)
    \/ \E resp \in CreateResponses : CreateReturns(resp)
    \/ \E r2 \in PollResponses : PollReturns(r2)
    \/ \E resp \in FetchResponses : FetchReturns(resp)

Spec == Init /\ [][Next]_vars

\* every blocking HTTP call comes back (with a response or an exception)
FairSpec ==
    /\ Spec
    /\ WF_vars(\E resp \in CreateResponses : CreateReturns(resp))
    /\ WF_vars(\E r2 \in PollResponses : PollReturns(r2))
    /\ WF_vars(\E resp \in FetchResponses : FetchReturns(resp))

TypeOK ==
    /\ pc \in {"idle", "post", "poll", "fetch"}
    /\ prompt \in Prompts
    /\ attempt \in 0..MaxAttempts
    /\ clicks \in 0..MaxClicks

(* ------------------------ derived notions ------------------------------ *)
Succeeded == ret.kind = "returned" /\ ret.err = NoErr
Ended == pc = "idle" /\ called /\ ret.kind # "none"

\* the state of the current request in the per-request state machine
Phase ==
    IF pc = "post" THEN "Submitted"
    ELSE IF pc \in {"poll", "fetch"} THEN "Polling"
    ELSE IF ret.kind = "none" THEN "None"
    ELSE IF Succeeded THEN "Done"
    ELSE "Failed"

Is2xx(code) == 200 <= code /\ code < 300
CreatesOf(rs) == {r \in rs : r.kind = "create"}
PollsOf(rs) == {r \in rs : r.kind = "poll"}
FetchesOf(rs) == {r \in rs : r.kind = "fetch"}
HasImage == "generated_image" \in DOMAIN session_state
HasPrompt == "generated_prompt" \in DOMAIN session_state

(* C1: a call of generate_image with a non-empty prompt issues exactly one *)
(* creation POST, in every state of the call and after it, and every poll  *)
(* GET of the call goes to the polling_url its own creation response       *)
(* carried, never to the one another call obtained.                        *)
C1_OnePostOwnPollingUrl ==
    called =>
        /\ nPost = 1
        /\ Cardinality(CreatesOf(reqs)) = 1
        /\ \A r \in CreatesOf(reqs) : r.method = "POST" /\ r.url = CreateUrl
        /\ (nPoll > 0) = (PollsOf(reqs) # {})
        /\ \A r \in PollsOf(reqs) :
              /\ createResp.kind = "response"
              /\ r.method = "GET"
              /\ r.url = <<createResp.body.polling_url>>
              /\ r.url = <<polling_url>>

C1_Witness ==
    /\ Ended /\ nPost = 1 /\ nPoll >= 2
    /\ prevUrl \in PollingUrls /\ polling_url \in PollingUrls
    /\ prevUrl # polling_url

(* C2: every creation response whose status code is outside 200..299 makes *)
(* generate_image return the error carrying that code and the body text,   *)
(* with no poll GET and no image fetch.  (Runs that end in an exception    *)
(* are left out of the statement.)                                         *)
C2_Non2xxIsTransportError ==
    (/\ createResp.kind = "response" /\ ~Is2xx(createResp.status_code)
     /\ ret.kind # "raised") =>
        /\ pc = "idle"
        /\ ret = Returned(NoImg, ErrTransport(createResp.status_code, createResp.body.text))
        /\ ui = [type |-> "error", text |-> ret.err]
        /\ nPoll = 0 /\ nFetch = 0

(* C3: a 2xx creation response that is a JSON object without polling_url   *)
(* makes generate_image return "No polling URL returned", whatever other   *)
(* fields it has, with no poll GET and no image fetch.                     *)
C3_MissingPollingUrl ==
    (/\ createResp.kind = "response"
     /\ Is2xx(createResp.status_code)
     /\ createResp.body.json = "object"
     /\ createResp.body.polling_url = Absent) =>
        /\ pc = "idle"
        /\ ret = Returned(NoImg, ErrNoUrl)
        /\ ui = [type |-> "error", text |-> ErrNoUrl]
        /\ nPoll = 0 /\ nFetch = 0
        /\ PollsOf(reqs) = {} /\ FetchesOf(reqs) = {}

C3_Witness ==
    /\ createResp.kind = "response" /\ createResp.status_code = 200
    /\ createResp.body.json = "object"
    /\ createResp.body.polling_url = Absent /\ createResp.body.extra
    /\ ret = Returned(NoImg, ErrNoUrl)

(* C4: at most 60 poll GETs are issued, and when the k-th poll answer     *)
(* (1 <= k <= 60) is the provider's first one with status Ready and        *)
(* result.sample, the call ends after exactly k poll GETs and one fetch of *)
(* that sample, returning the image.  (Stated for 2xx creation responses;  *)
(* runs in which an HTTP call raised, a body was not a JSON object or the  *)
(* image bytes did not decode are left out of the statement.)              *)
C4_FirstReadyEndsPolling ==
    /\ nPoll <= MaxAttempts
    /\ (/\ Ended /\ nPoll >= 1 /\ willBeReady
        /\ Is2xx(createResp.status_code)
        /\ ret.err.msg \notin {"ConnectionError", "JSONDecodeError",
                               "AttributeError", "UnidentifiedImageError"}) =>
           /\ readyAt \in 1..MaxAttempts
           /\ nPoll = readyAt
           /\ nFetch = 1
           /\ FetchesOf(reqs) = {FetchRequest(sample)}
           /\ Succeeded

(* C5: as long as every poll answer is a JSON object whose status is not   *)
(* Ready, each answer uses up one attempt; the call then ends after exactly*)
(* 60 poll GETs with "Timeout waiting for image", never issues a 61st poll *)
(* and never fetches an image.                                             *)
C5_TimeoutAfterSixty ==
    /\ nPoll <= MaxAttempts
    /\ (pc = "poll" /\ onlyNonReady) => (nPoll = attempt /\ nFetch = 0)
    /\ (Ended /\ nPoll >= 1 /\ onlyNonReady) =>
           /\ nPoll = MaxAttempts
           /\ ret = Returned(NoImg, ErrTimeout)
           /\ ui = [type |-> "error", text |-> ErrTimeout]
           /\ nFetch = 0 /\ FetchesOf(reqs) = {}

C5_Witness ==
    /\ Ended /\ onlyNonReady /\ nPoll = MaxAttempts
    /\ ret = Returned(NoImg, ErrTimeout)

(* C6: a request goes Submitted -> Polling -> Done or Failed.  Polling is  *)
(* entered only from Submitted, on a creation response that is not an HTTP *)
(* error and carries a polling URL; Done is entered only from Polling,     *)
(* after a Ready answer; a request that is Done or Failed stays so and     *)
(* issues nothing more; and, every HTTP call coming back, every request    *)
(* reaches Done or Failed.                                                 *)
C6_Step ==
    /\ (Phase' = "Polling" /\ Phase # "Polling") =>
           /\ Phase = "Submitted"
           /\ createResp'.kind = "response"
           /\ ~(400 <= createResp'.status_code /\ createResp'.status_code < 600)
           /\ createResp'.body.json = "object"
           /\ createResp'.body.polling_url \in PollingUrls
    /\ (Phase' = "Submitted") => (Phase \in {"None", "Done", "Failed"} /\ clicks' = clicks + 1)
    /\ (Phase' = "Done" /\ Phase # "Done") =>
           (Phase = "Polling" /\ pc = "fetch" /\ ~onlyNonReady /\ sample \in SampleUrls)
    /\ (Phase' = "Failed" /\ Phase # "Failed") => Phase \in {"Submitted", "Polling"}
    /\ (Phase \in {"Done", "Failed"} /\ clicks' = clicks) =>
           (Phase' = Phase /\ UNCHANGED <<nPost, nPoll, nFetch, reqs>>)

C7_FailuresAreReturnedErrors ==
    (/\ Ended /\ ~Succeeded
     /\ createResp.kind = "response" /\ Is2xx(createResp.status_code)
     /\ ret.err.msg # "ConnectionError") =>
        /\ ret.kind = "returned"
        /\ ret.err.msg \in {"Error", "No polling URL returned", "Timeout waiting for image"}
        /\ ui = [type |-> "error", text |-> ret.err]

(* C8: a Generate click with an empty prompt calls nothing: no HTTP request*)
(* is issued, the warning is shown, and the stored image and prompt are    *)
(* left as they were; generate_image only ever runs with a non-empty       *)
(* prompt.                                                                 *)
C8_Step ==
    (clicks' = clicks + 1 /\ prompt' = "") =>
        /\ session_state' = session_state
        /\ ~called' /\ pc' = "idle"
        /\ nPost' = 0 /\ nPoll' = 0 /\ nFetch' = 0 /\ reqs' = {}
        /\ ui'.type = "warning" /\ ui'.text.msg = "Please enter a prompt."

C8_EmptyPromptNeverSent ==
    /\ [](called => prompt # "")
    /\ []((pc # "idle" \/ nPost + nPoll + nFetch > 0 \/ reqs # {}) => (called /\ prompt # ""))
    /\ [][C8_Step]_vars

C8_Witness ==
    /\ clicks = 2 /\ prompt = "" /\ ~called /\ ui.type = "warning"
    /\ HasImage /\ reqs = {}

(* C9: the creation POST and every poll GET carry the x-key header with the*)
(* same credential, and the image fetch GET never carries it.              *)
C9_KeyOnApiCallsOnly ==
    /\ \A r \in reqs :
          /\ r.kind \in {"create", "poll"} => r.headers.x_key = FLUX_API_KEY
          /\ r.kind = "fetch" => r.headers.x_key = Absent
    /\ (nPost > 0) = (CreatesOf(reqs) # {})
    /\ (nPoll > 0) = (PollsOf(reqs) # {})
    /\ (nFetch > 0) = (FetchesOf(reqs) # {})

C9_Witness ==
    /\ Ended /\ Succeeded /\ nPoll >= 2
    /\ CreatesOf(reqs) # {} /\ PollsOf(reqs) # {} /\ FetchesOf(reqs) # {}

(* C10: the stored image and prompt are written together and only by a     *)
(* generation that returned no error: one is present iff the other is, the *)
(* stored prompt is the prompt of the request that produced the stored     *)
(* image, and a failed generation leaves both as they were.                *)
C10_Inv ==
    /\ HasImage = HasPrompt
    /\ HasImage =>
          /\ session_state["generated_image"] # NoImg
          /\ session_state["generated_image"].depicts = session_state["generated_prompt"]

C10_Step ==
    /\ (session_state' # session_state) =>
          /\ pc # "idle" /\ pc' = "idle"
          /\ ret'.kind = "returned" /\ ret'.err = NoErr
          /\ session_state'["generated_image"] = ret'.img
          /\ session_state'["generated_prompt"] = prompt
    /\ (pc # "idle" /\ pc' = "idle" /\ ~(ret'.kind = "returned" /\ ret'.err = NoErr)) =>
          session_state' = session_state

C10_StoredTogether == []C10_Inv /\ [][C10_Step]_vars

C10_Witness ==
    /\ clicks = 2 /\ Ended /\ ~Succeeded
    /\ HasImage /\ HasPrompt
    /\ session_state["generated_prompt"] # prompt
====
